---- MODULE Spec2Model ----
(***************************************************************************)
(* Model of UseOptimisticComponent (src/src/App.tsx, lines 230-273): the   *)
(* optimistic name update driven by useState / useOptimistic /             *)
(* useTransition, its handler onUpdateNameHandler, the mock collaborator   *)
(* updateNameWithReject and the Button that starts an attempt.             *)
(*                                                                         *)
(* One asynchronous attempt is one call of the async callback given to     *)
(* startTransition.  It runs in three pieces:                              *)
(*   onUpdateNameHandler  the click: the synchronous part up to the await  *)
(*   timerFires           the setTimeout callback of updateNameWithReject  *)
(*                        and, in the same task, the continuation of the   *)
(*                        await (try / catch of the handler)               *)
(*   finishTransition     the framework ends the async transition: the     *)
(*                        pending flag drops and the optimistic state      *)
(*                        falls back to the state it was created from      *)
(***************************************************************************)
EXTENDS Integers, FiniteSets, Sequences, TLC

(* Bound on the number of attempts that may be in flight at once. *)
MaxInFlight == 2

(* The strings the user can type into the input field. *)
Values == {"", "alice", "bob", "carol"}

(* Placeholders: no optimistic update queued / nothing requested yet. *)
NoUpdate == "<none>"

VARIABLES
    originData,   \* useState('')            App.tsx:231
    name,         \* useState(originData)    App.tsx:232
    optimistic,   \* the queued optimistic update of useOptimistic, App.tsx:233
    error,        \* useState("")            App.tsx:234
    attempts,     \* the async transition callbacks in flight, App.tsx:238
    hist          \* history of requests and completions (observer only)

vars == <<originData, name, optimistic, error, attempts, hist>>

Slots == 1..MaxInFlight

(* What Date.now() % 2 can evaluate to (App.tsx:49). *)
Parity == {0, 1}

(***************************************************************************)
(* Framework state derived from the hooks.                                 *)
(***************************************************************************)

(* useTransition's flag: true from the click until every async transition  *)
(* callback that was started has returned and the framework has ended it.  *)
isPending == attempts # {}

(* useOptimistic(originData): the queued optimistic update while a         *)
(* transition is pending, otherwise the state it was created from.         *)
optimisticNameIgnoresUpdate == originData

optimisticName == IF optimistic = NoUpdate THEN originData ELSE optimistic

(* Button: disabled={isPending || disabled}, isPending = pending ||        *)
(* status?.pending; the button is not inside a form, so status.pending is  *)
(* false.                                                                  *)
ButtonIgnoresPending(pending, disabled) == disabled

Button(pending, disabled) == pending \/ disabled

(***************************************************************************)
(* updateNameWithReject: the timer callback.                               *)
(*   value === 0  -> reject()                                              *)
(*   otherwise    -> resolve(!value)                                       *)
(***************************************************************************)
JsNot(value) == (value = 0)

updateNameWithReject(value) ==
    IF value = 0
    THEN [settled |-> "rejected", with |-> FALSE]
    ELSE [settled |-> "resolved", with |-> JsNot(value)]

(***************************************************************************)
(* The synchronous part of the handler.                                    *)
(***************************************************************************)
setOptimisticNameDropped(value) == optimistic

setOptimisticName(value) == value

(* The closure of the click: `name` is the value of the render in which    *)
(* the handler was created, and stays so after the await.  before and      *)
(* errorBefore record originData and error at the click; the code never    *)
(* reads them, they only let properties speak of the pre-attempt values.   *)
startAttempt(slot) ==
    [slot |-> slot, name |-> name, pc |-> "await",
     settled |-> "pending", with |-> FALSE, threw |-> FALSE,
     before |-> originData, errorBefore |-> error]

(***************************************************************************)
(* The continuation of the await: try { await ...; setError("");           *)
(* setOriginData(name) } catch { setError("error") }.  The resolved value  *)
(* is not read.  Result: the new error, the new originData, and whether    *)
(* the async callback's own promise rejects.                               *)
(***************************************************************************)
ContinuationKeepsOrigin(a, res) ==
    IF res.settled = "resolved"
    THEN [error |-> "", originData |-> originData, threw |-> FALSE]
    ELSE [error |-> "error", originData |-> originData, threw |-> FALSE]

ContinuationNoCatch(a, res) ==
    IF res.settled = "resolved"
    THEN [error |-> "", originData |-> a.name, threw |-> FALSE]
    ELSE [error |-> error, originData |-> originData, threw |-> TRUE]

ContinuationKeepsError(a, res) ==
    IF res.settled = "resolved"
    THEN [error |-> error, originData |-> a.name, threw |-> FALSE]
    ELSE [error |-> "error", originData |-> originData, threw |-> FALSE]

ContinuationReadsInput(a, res) ==
    IF res.settled = "resolved"
    THEN [error |-> "", originData |-> name, threw |-> FALSE]
    ELSE [error |-> "error", originData |-> originData, threw |-> FALSE]

Continuation(a, res) ==
    IF res.settled = "resolved"
    THEN [error |-> "", originData |-> a.name, threw |-> FALSE]
    ELSE [error |-> "error", originData |-> originData, threw |-> FALSE]

(***************************************************************************)
(* End of the async transition: the optimistic update is dropped once no   *)
(* async transition callback remains in flight.                            *)
(***************************************************************************)
revertOptimisticNever(remaining) == optimistic

revertOptimistic(remaining) ==
    IF remaining = {} THEN NoUpdate ELSE optimistic

(***************************************************************************)
(* State after construction.                                               *)
(***************************************************************************)
Init ==
    /\ originData = ""
    /\ name = originData
    /\ optimistic = NoUpdate
    /\ error = ""
    /\ attempts = {}
    /\ hist = [req |-> 0, requested |-> NoUpdate,
               completed |-> "none", newer |-> FALSE]

FreeSlots == {s \in Slots : \A a \in attempts : a.slot # s}

(* <input onChange={(e) => setName(e.target.value)}> *)
onChange(v) ==
    /\ v # name
    /\ name' = v
    /\ UNCHANGED <<originData, optimistic, error, attempts, hist>>

(* Click on the button: startTransition(async () => { setOptimisticName(   *)
(* name); ... await updateNameWithReject(name, 500) ...                    *)
onUpdateNameHandler ==
    /\ ~Button(isPending, FALSE)
    /\ FreeSlots # {}
    /\ LET s == CHOOSE x \in FreeSlots : \A y \in FreeSlots : x <= y
       IN /\ attempts' = attempts \cup {startAttempt(s)}
          /\ optimistic' = setOptimisticName(name)
          /\ hist' = [hist EXCEPT !.req = s, !.requested = name,
                                  !.newer = TRUE]
    /\ UNCHANGED <<originData, name, error>>

(* The timer of attempt a fires with Date.now() % 2 = value, the promise   *)
(* settles and the continuation of the await runs.                         *)
timerFires(a, value) ==
    /\ a \in attempts
    /\ a.pc = "await"
    /\ LET res == updateNameWithReject(value)
           out == Continuation(a, res)
       IN /\ error' = out.error
          /\ originData' = out.originData
          /\ attempts' = (attempts \ {a}) \cup
                {[a EXCEPT !.pc = "returned", !.settled = res.settled,
                           !.with = res.with, !.threw = out.threw]}
          /\ hist' = [hist EXCEPT !.completed = res.settled,
                                  !.newer = FALSE]
    /\ UNCHANGED <<name, optimistic>>

(* The framework ends the transition of attempt a, whose callback has      *)
(* returned.                                                               *)
finishTransition(a) ==
    /\ a \in attempts
    /\ a.pc = "returned"
    /\ attempts' = attempts \ {a}
    /\ optimistic' = revertOptimistic(attempts \ {a})
    /\ UNCHANGED <<originData, name, error, hist>>

Next ==
    \/ \E v \in Values : onChange(v)
    \/ onUpdateNameHandler
    \/ \E a \in attempts, value \in Parity : timerFires(a, value)
    \/ \E a \in attempts : finishTransition(a)

Spec == Init /\ [][Next]_vars

TypeOK ==
    /\ originData \in Values
    /\ name \in Values
    /\ optimistic \in Values \cup {NoUpdate}
    /\ error \in {"", "error"}
    /\ \A a \in attempts : a.slot \in Slots /\ a.name \in Values
    /\ Cardinality(attempts) <= MaxInFlight

(***************************************************************************)
(* Steps of one attempt, as seen in a pair of states.                      *)
(***************************************************************************)

(* Attempt a was awaiting the collaborator and settles in this step. *)
Settles(a, how) ==
    /\ a \in attempts
    /\ a.pc = "await"
    /\ \E b \in attempts' :
          b.slot = a.slot /\ b.pc = "returned" /\ b.settled = how

(* The transition of the returned attempt a ends in this step. *)
Finishes(a) ==
    /\ a \in attempts
    /\ a.pc = "returned"
    /\ a \notin attempts'

Awaiting == {a \in attempts : a.pc = "await"}

Returned == {a \in attempts : a.pc = "returned"}

(***************************************************************************)
(* C1: while the attempt started by requestUpdate(v) has neither resolved  *)
(* nor rejected, the displayed optimisticName equals v.                    *)
(***************************************************************************)
C1_TentativeWhileAwaiting ==
    \A a \in Awaiting : optimisticName = a.name

C1_Witness ==
    \E a \in Awaiting :
        a.name # originData /\ a.name # name /\ optimisticName = a.name

(***************************************************************************)
(* C2: when the collaborator resolves for the attempt started with v, the  *)
(* same step leaves originData = v and error = "", whatever originData and *)
(* error were before the attempt.                                          *)
(***************************************************************************)
C2_ResolveConfirms ==
    [][\A a \in attempts :
          Settles(a, "resolved") => originData' = a.name /\ error' = ""]_vars

C2_Witness ==
    \E a \in Returned :
        /\ a.settled = "resolved"
        /\ a.before # a.name
        /\ a.errorBefore = "error"
        /\ originData = a.name
        /\ error = ""

(***************************************************************************)
(* C3: when the collaborator rejects for an attempt, the same step leaves  *)
(* error = "error" and originData equal to its value at the start of the   *)
(* attempt, and the handler's own promise does not reject.                 *)
(***************************************************************************)
C3_RejectFlagsError ==
    [][\A a \in attempts :
          Settles(a, "rejected") =>
              /\ error' = "error"
              /\ originData' = a.before
              /\ \A b \in attempts' : b.slot = a.slot => ~b.threw]_vars

C3_Witness ==
    \E a \in Returned :
        /\ a.settled = "rejected"
        /\ ~a.threw
        /\ a.errorBefore = ""
        /\ a.before # ""
        /\ a.name # a.before
        /\ originData = a.before
        /\ error = "error"

(***************************************************************************)
(* C4: an attempt whose collaborator resolves with a falsy value is        *)
(* treated as a failure: error becomes "error" and originData is left      *)
(* unchanged.                                                              *)
(***************************************************************************)
C4_FalsyResolutionFails ==
    [][\A a \in attempts :
          (/\ Settles(a, "resolved")
           /\ \E b \in attempts' : b.slot = a.slot /\ ~b.with)
          => error' = "error" /\ originData' = originData]_vars

(***************************************************************************)
(* C5: when the transition of a rejected attempt ends, the displayed       *)
(* optimisticName is the originData that held before the attempt; when the *)
(* transition of a resolved attempt ends, it is the newly confirmed value. *)
(***************************************************************************)
C5_RollbackOnFailure ==
    [][\A a \in attempts :
          Finishes(a) =>
              /\ a.settled = "rejected" => optimisticName' = a.before
              /\ a.settled = "resolved" => optimisticName' = a.name]_vars

C5_Witness ==
    /\ ~isPending
    /\ hist.completed = "rejected"
    /\ hist.requested # originData
    /\ originData # ""
    /\ optimisticName = originData

(***************************************************************************)
(* C6 (as stated): once something has been requested, optimisticName is    *)
(* the most recently requested value, also after a failed attempt.         *)
(***************************************************************************)
C6_TentativeIsLastRequested ==
    hist.requested # NoUpdate => optimisticName = hist.requested

(***************************************************************************)
(* C6 (amended): once something has been requested, optimisticName is the  *)
(* most recently requested value while the transition is pending, and      *)
(* originData once it has ended.                                           *)
(***************************************************************************)
C6_TentativeWhilePendingElseConfirmed ==
    hist.requested # NoUpdate =>
        optimisticName = IF isPending THEN hist.requested ELSE originData

C6_Witness ==
    /\ ~isPending
    /\ hist.completed = "rejected"
    /\ name = hist.requested
    /\ optimisticName # hist.requested

(***************************************************************************)
(* C7 (as stated): error is set exactly when the most recently completed   *)
(* attempt failed and no newer attempt has started since.                  *)
(***************************************************************************)
C7_ErrorClearedOnRequest ==
    (error = "error") <=> (hist.completed = "rejected" /\ ~hist.newer)

(***************************************************************************)
(* C7 (amended): error is set exactly when the most recently completed     *)
(* attempt failed, whether or not a newer attempt has started since.       *)
(***************************************************************************)
C7_ErrorIffLastCompletedFailed ==
    (error = "error") <=> (hist.completed = "rejected")

C7_Witness ==
    /\ error = "error"
    /\ hist.newer
    /\ Awaiting # {}

(***************************************************************************)
(* C8: originData changes only in a step in which an attempt resolves, and *)
(* the value written is the value that attempt was started with.           *)
(***************************************************************************)
C8_ConfirmedOnlyOnSuccess ==
    [][originData' # originData =>
          \E a \in attempts :
              Settles(a, "resolved") /\ originData' = a.name]_vars

C8_Witness ==
    \E a \in Returned :
        /\ a.settled = "resolved"
        /\ name # a.name
        /\ a.before # a.name
        /\ originData = a.name

(***************************************************************************)
(* C9 (as stated): attempts are not serialized; a further requestUpdate    *)
(* can be issued while an earlier attempt has not resolved.                *)
(***************************************************************************)
C9_RequestWhileAwaiting ==
    Awaiting # {} => ENABLED onUpdateNameHandler

(***************************************************************************)
(* C9 (amended): every attempt in flight is the most recently requested    *)
(* one, and once it has settled originData and error are those written by  *)
(* its outcome.                                                            *)
(***************************************************************************)
C9_LastRequestedDetermines ==
    \A a \in attempts :
        /\ a.slot = hist.req
        /\ a.name = hist.requested
        /\ a.pc = "returned" /\ a.settled = "resolved"
               => originData = a.name /\ error = ""
        /\ a.pc = "returned" /\ a.settled = "rejected"
               => error = "error"

C9_Witness ==
    \E a \in Returned :
        /\ a.settled = "rejected"
        /\ a.before # ""
        /\ a.errorBefore = ""
        /\ a.slot = hist.req
        /\ error = "error"

(***************************************************************************)
(* C10: at most one attempt is in flight, and while one is pending the     *)
(* button is disabled, so the click handler cannot run.                    *)
(***************************************************************************)
C10_AtMostOneInFlight ==
    /\ Cardinality(attempts) <= 1
    /\ isPending => Button(isPending, FALSE) /\ ~ENABLED onUpdateNameHandler

C10_Witness ==
    /\ Cardinality(attempts) = 1
    /\ Button(isPending, FALSE)
    /\ name # optimisticName
    /\ hist.completed # "none"

====
